---------------------------- MODULE Spec2Model ----------------------------
(***************************************************************************)
(* Fear & Greed score engine (internal/calc): the indicator library, the   *)
(* rolling percentile normalizer RollingScore, the aggregation in Compute  *)
(* and the label classifier LabelFromScore.                                *)
(*                                                                         *)
(* Numbers.  A float64 is a record [nan, w, n, d]: either the NaN sentinel *)
(* (nan = TRUE) or the exact rational w + n/d with 0 <= n < d and n/d in   *)
(* lowest terms.  Arithmetic is exact; float64 rounding (at most one unit  *)
(* in the last place per operation) is outside the model, except where a   *)
(* value is irrational or its denominator grows without bound (math.Sqrt,  *)
(* the EMA recurrence, Wilder's smoothing): those are rounded to a grid of *)
(* 1/FixScale.                                                             *)
(*                                                                         *)
(* Slices.  A Go slice is a sequence; At(s, i) reads the source's 0-based  *)
(* index i, so index expressions read as they do in the source.            *)
(***************************************************************************)
EXTENDS Integers, Sequences, FiniteSets, TLC

VARIABLES
    pf,          \* Compute: the input price frame (pf.Prices)
    cfg,         \* Compute: the Config argument
    lang,        \* Compute / LabelFromScore: the language argument
    pc,          \* position of the running call
    normWindow,  \* Compute: the clamped normalization window
    raw,         \* Compute: the eight raw indicator series
    sub,         \* Compute: the eight normalized sub-score series
    results,     \* Compute: the ScoreResult records built so far
    call,        \* a direct call of a library function: its arguments
    ret,         \* a direct call of a library function: its result
    weights,     \* package calc: the global Weights table
    defaultConfig, \* package calc: the global DefaultConfig
    history,     \* the Compute calls completed so far: arguments and outcome
    memCache,    \* package api: the response cache, key -> response
    storedBy,    \* for each cache key, the parameters of the request that set it
    request,     \* handleFearGreed: the query of the request being served
    fetched,     \* handleFearGreed: what provider.GetPrices returned
    response,    \* handleFearGreed: the response written
    served       \* number of requests served so far

\* the package-level variables of internal/calc
globals == <<weights, defaultConfig>>

\* the state of the HTTP handler
server == <<memCache, storedBy, request, fetched, response, served>>

vars == <<pf, cfg, lang, pc, normWindow, raw, sub, results, call, ret,
          globals, history, server>>

--------------------------------------------------------------------------
(* float64 *)

NaN == [nan |-> TRUE, w |-> 0, n |-> 0, d |-> 1]

IsNaN(x) == x.nan

Abs(k) == IF k < 0 THEN -k ELSE k

RECURSIVE GCD(_, _)
GCD(a, b) == IF b = 0 THEN a ELSE GCD(b, a % b)

\* The number N/D (D > 0) in normal form.
R(N, D) ==
    LET g == GCD(N % D, D)
    IN  [nan |-> FALSE, w |-> N \div D, n |-> (N % D) \div g, d |-> D \div g]

Num(k) == R(k, 1)

\* The improper numerator of x: x = Top(x) / x.d.
Top(x) == x.w * x.d + x.n

RNeg(x) ==
    IF x.nan THEN NaN
    ELSE IF x.n = 0 THEN [x EXCEPT !.w = -x.w]
    ELSE [x EXCEPT !.w = -x.w - 1, !.n = x.d - x.n]

RAdd(x, y) ==
    IF x.nan \/ y.nan THEN NaN
    ELSE LET g == GCD(x.d, y.d)
             f == R(x.n * (y.d \div g) + y.n * (x.d \div g), (x.d \div g) * y.d)
         IN  [f EXCEPT !.w = x.w + y.w + f.w]

RSub(x, y) == RAdd(x, RNeg(y))

RMul(x, y) ==
    IF x.nan \/ y.nan THEN NaN
    ELSE LET g1 == GCD(Abs(Top(x)), y.d)
             g2 == GCD(Abs(Top(y)), x.d)
         IN  R((Top(x) \div g1) * (Top(y) \div g2), (x.d \div g2) * (y.d \div g1))

\* x / y for y # 0 (every division of the source is guarded or has a
\* non-zero constant divisor).
RDiv(x, y) ==
    IF x.nan \/ y.nan THEN NaN
    ELSE LET g1 == GCD(Abs(Top(x)), Abs(Top(y)))
             g2 == GCD(x.d, y.d)
             s  == IF Top(y) < 0 THEN -1 ELSE 1
         IN  R(s * (Top(x) \div g1) * (y.d \div g2),
               (x.d \div g2) * (Abs(Top(y)) \div g1))

\* n1/d1 < n2/d2 for fractions in [0, 1), by the continued-fraction
\* expansion (no product is formed).
RECURSIVE FracLess(_, _, _, _)
FracLess(n1, d1, n2, d2) ==
    IF n2 = 0 THEN FALSE
    ELSE IF n1 = 0 THEN TRUE
    ELSE IF d1 \div n1 # d2 \div n2 THEN d1 \div n1 > d2 \div n2
    ELSE FracLess(d2 % n2, n2, d1 % n1, n1)

\* Comparisons: false whenever an operand is NaN, as for float64.
RLt(x, y) ==
    /\ ~x.nan /\ ~y.nan
    /\ IF x.w # y.w THEN x.w < y.w ELSE FracLess(x.n, x.d, y.n, y.d)

REq(x, y) == ~x.nan /\ ~y.nan /\ x = y

RLe(x, y) == RLt(x, y) \/ REq(x, y)

RGt(x, y) == RLt(y, x)

RNe(x, y) == ~REq(x, y)

\* Resolution of the grid that rounded values live on.
FixScale == 1000

\* floor(x * FixScale)
Scaled(x) == x.w * FixScale + (x.n * FixScale) \div x.d

\* x rounded down to the grid.
Fix(x) == IF x.nan THEN NaN ELSE R(Scaled(x), FixScale)

\* x rounded up to the grid: a positive value stays positive, as it does
\* in float64 for any number of smoothing steps a series here can take.
FixUp(x) == IF x.nan THEN NaN ELSE R(-Scaled(RNeg(x)), FixScale)

RECURSIVE ISqrt(_, _, _)
ISqrt(k, lo, hi) ==
    IF lo >= hi THEN lo
    ELSE LET mid == (lo + hi + 1) \div 2
         IN  IF mid * mid <= k THEN ISqrt(k, mid, hi) ELSE ISqrt(k, lo, mid - 1)

\* math.Sqrt of a non-negative number, on the grid.
Sqrt(x) ==
    IF x.nan THEN NaN
    ELSE LET r == (x.n * FixScale) % x.d
             k == Scaled(x) * FixScale + (r * FixScale) \div x.d  \* floor(x * FixScale^2)
         IN  R(ISqrt(k, 0, 46340), FixScale)

--------------------------------------------------------------------------
(* slices *)

At(s, i) == s[i + 1]

\* make([]float64, n) filled with v
Filled(n, v) == [i \in 1..n |-> v]

\* The indices 0..len-1 of a slice.
Idx(s) == 0..(Len(s) - 1)


\* s with the element at the source's index i set to v
Put(s, i, v) == [s EXCEPT ![i + 1] = v]

\* Whether a call that touches the indices I of a slice of length n panics
\* (Go's "index out of range").
OutOfRange(n, I) == \E i \in I : i < 0 \/ i >= n

RECURSIVE SumRange(_, _, _)
\* s[lo] + ... + s[hi], added in index order
SumRange(s, lo, hi) ==
    IF lo > hi THEN Num(0) ELSE RAdd(SumRange(s, lo, hi - 1), At(s, hi))

--------------------------------------------------------------------------
(* indicators.go: Simple Moving Average *)

RECURSIVE SMALoop(_, _, _, _, _)
SMALoop(values, window, i, sum, out) ==
    IF i >= Len(values) THEN out
    ELSE LET s == RAdd(RSub(sum, At(values, i - window)), At(values, i))
         IN  SMALoop(values, window, i + 1, s, Put(out, i, RDiv(s, Num(window))))

\* The indices SMA reads or writes.
SMAIndexesNoGuard(values, window) ==
    (0..(window - 1)) \cup {window - 1}
        \cup (window..(Len(values) - 1))
        \cup {i - window : i \in window..(Len(values) - 1)}

SMAIndexes(values, window) ==
    IF Len(values) < window THEN {}
    ELSE (0..(window - 1)) \cup {window - 1}
            \cup (window..(Len(values) - 1))
            \cup {i - window : i \in window..(Len(values) - 1)}

\* SMA with the warm-up one bar too long
SMAOneBarLate(values, window) ==
    [k \in 1..Len(values) |->
        IF k - 1 < window \/ Len(values) < window THEN NaN
        ELSE RDiv(SumRange(values, k - window, k - 1), Num(window))]

SMA(values, window) ==
    IF Len(values) < window THEN Filled(Len(values), NaN)
    ELSE LET sum == SumRange(values, 0, window - 1)
             out == Put(Filled(Len(values), NaN), window - 1, RDiv(sum, Num(window)))
         IN  SMALoop(values, window, window, sum, out)

--------------------------------------------------------------------------
(* indicators.go: Momentum *)

MomentumIndexes(values, window) ==
    {i - window : i \in window..(Len(values) - 1)}
        \cup {i \in window..(Len(values) - 1) : RNe(At(values, i - window), Num(0))}

Momentum(values, window) ==
    [k \in 1..Len(values) |->
        LET i == k - 1
        IN  IF i >= window /\ RNe(At(values, i - window), Num(0))
            THEN RSub(RDiv(At(values, i), At(values, i - window)), Num(1))
            ELSE NaN]

--------------------------------------------------------------------------
(* indicators.go: RSI *)

\* The stand-in for an infinite ratio (rs, mfr).
MaxRatio == 1000000000

\* 100 - 100/(1 + rs)
RatioScore(rs) == RSub(Num(100), RDiv(Num(100), RAdd(Num(1), rs)))

RSIGains(values) ==
    [k \in 1..Len(values) |->
        LET i == k - 1
        IN  IF i >= 1 /\ RGt(RSub(At(values, i), At(values, i - 1)), Num(0))
            THEN RSub(At(values, i), At(values, i - 1))
            ELSE Num(0)]

RSILosses(values) ==
    [k \in 1..Len(values) |->
        LET i == k - 1
        IN  IF i >= 1 /\ ~RGt(RSub(At(values, i), At(values, i - 1)), Num(0))
            THEN RNeg(RSub(At(values, i), At(values, i - 1)))
            ELSE Num(0)]

\* Wilder's smoothing loop; returns the slice and the averages it ends with.
RECURSIVE RSILoop(_, _, _, _, _, _, _)
RSILoop(gains, losses, window, i, avgGain, avgLoss, out) ==
    IF i >= Len(gains) THEN [out |-> out, avgGain |-> avgGain, avgLoss |-> avgLoss]
    ELSE LET g  == FixUp(RDiv(RAdd(RMul(avgGain, Num(window - 1)), At(gains, i)),
                              Num(window)))
             l  == FixUp(RDiv(RAdd(RMul(avgLoss, Num(window - 1)), At(losses, i)),
                              Num(window)))
             rs == IF RNe(l, Num(0)) THEN RDiv(g, l)
                   ELSE IF REq(g, Num(0)) THEN Num(0)
                   ELSE Num(MaxRatio)
         IN  RSILoop(gains, losses, window, i + 1, g, l, Put(out, i, RatioScore(rs)))

RSIIndexes(values, window) ==
    IF Len(values) < window + 1 THEN {}
    ELSE (1..(Len(values) - 1)) \cup (0..(Len(values) - 2))
            \cup (1..window) \cup ((window + 1)..(Len(values) - 1)) \cup {window}

RSI(values, window) ==
    IF Len(values) < window + 1 THEN Filled(Len(values), NaN)
    ELSE LET gains  == RSIGains(values)
             losses == RSILosses(values)
             g0     == RDiv(SumRange(gains, 1, window), Num(window))
             l0     == RDiv(SumRange(losses, 1, window), Num(window))
             loop   == RSILoop(gains, losses, window, window + 1, g0, l0,
                               Filled(Len(values), NaN))
             \* "Initial value": computed after the loop, from the averages
             \* the loop left behind
             rs     == IF RNe(loop.avgLoss, Num(0))
                       THEN RDiv(loop.avgGain, loop.avgLoss) ELSE Num(0)
         IN  IF REq(loop.avgLoss, Num(0)) /\ RGt(loop.avgGain, Num(0))
             THEN Put(loop.out, window, Num(100))
             ELSE Put(loop.out, window, RatioScore(rs))

--------------------------------------------------------------------------
(* indicators.go: EMA and the MACD histogram *)

RECURSIVE EMALoop(_, _, _, _)
EMALoop(values, k, i, out) ==
    IF i >= Len(values) THEN out
    ELSE EMALoop(values, k, i + 1,
                 Put(out, i, Fix(RAdd(RMul(At(values, i), k),
                                      RMul(At(out, i - 1), RSub(Num(1), k))))))

EMA(values, span) ==
    IF Len(values) = 0 THEN Filled(0, Num(0))
    ELSE EMALoop(values, RDiv(Num(2), Num(span + 1)), 1,
                 Put(Filled(Len(values), Num(0)), 0, At(values, 0)))

MACD(values) ==
    LET fast     == EMA(values, 12)
        slow     == EMA(values, 26)
        macdLine == [k \in 1..Len(values) |-> RSub(fast[k], slow[k])]
        signal   == EMA(macdLine, 9)
    IN  [k \in 1..Len(values) |-> RSub(macdLine[k], signal[k])]

--------------------------------------------------------------------------
(* indicators.go: Realized Volatility *)

RealizedVolReturns(values) ==
    [k \in 1..Len(values) |->
        LET i == k - 1
        IN  IF i >= 1 /\ RNe(At(values, i - 1), Num(0))
            THEN RSub(RDiv(At(values, i), At(values, i - 1)), Num(1))
            ELSE Num(0)]

RECURSIVE SumSqDev(_, _, _, _)
\* (s[lo] - mean)^2 + ... + (s[hi] - mean)^2
SumSqDev(s, lo, hi, mean) ==
    IF lo > hi THEN Num(0)
    ELSE LET dv == RSub(At(s, hi), mean)
         IN  RAdd(SumSqDev(s, lo, hi - 1, mean), RMul(dv, dv))

RealizedVolIndexes(values, window) ==
    (1..(Len(values) - 1)) \cup (0..(Len(values) - 2))
        \cup {i - j : i \in window..(Len(values) - 1), j \in 0..(window - 1)}

RealizedVol(values, window) ==
    LET returns == RealizedVolReturns(values)
    IN  [k \in 1..Len(values) |->
            LET i == k - 1
            IN  IF i < window THEN NaN
                ELSE LET mean == RDiv(SumRange(returns, i - window + 1, i), Num(window))
                         std  == Sqrt(RDiv(SumSqDev(returns, i - window + 1, i, mean),
                                           Num(window)))
                     IN  RMul(std, Sqrt(Num(252)))]

--------------------------------------------------------------------------
(* indicators.go: Money Flow Index *)

MFITypicalPrice(high, low, close) ==
    [k \in 1..Len(close) |-> RDiv(RAdd(RAdd(high[k], low[k]), close[k]), Num(3))]

MFIPosFlow(typicalPrice, volume) ==
    [k \in 1..Len(typicalPrice) |->
        IF k >= 2 /\ RGt(typicalPrice[k], typicalPrice[k - 1])
        THEN RMul(typicalPrice[k], volume[k]) ELSE Num(0)]

MFINegFlow(typicalPrice, volume) ==
    [k \in 1..Len(typicalPrice) |->
        IF k >= 2 /\ ~RGt(typicalPrice[k], typicalPrice[k - 1])
                  /\ RLt(typicalPrice[k], typicalPrice[k - 1])
        THEN RMul(typicalPrice[k], volume[k]) ELSE Num(0)]

RECURSIVE MFILoop(_, _, _, _, _, _, _)
MFILoop(posFlow, negFlow, window, i, sumPos, sumNeg, out) ==
    IF i >= Len(posFlow) THEN out
    ELSE LET sp  == IF i > window
                    THEN RAdd(RSub(sumPos, At(posFlow, i - window)), At(posFlow, i))
                    ELSE sumPos
             sn  == IF i > window
                    THEN RAdd(RSub(sumNeg, At(negFlow, i - window)), At(negFlow, i))
                    ELSE sumNeg
             mfr == IF RNe(sn, Num(0)) THEN RDiv(sp, sn)
                    ELSE IF RGt(sp, Num(0)) THEN Num(MaxRatio)
                    ELSE Num(0)
         IN  MFILoop(posFlow, negFlow, window, i + 1, sp, sn,
                     Put(out, i, RatioScore(mfr)))

MFIIndexes(close, window) ==
    IF Len(close) < window + 1 THEN {}
    ELSE (0..(Len(close) - 1)) \cup (1..window)
            \cup {i - window : i \in (window + 1)..(Len(close) - 1)}

MFI(high, low, close, volume, window) ==
    IF Len(close) < window + 1 THEN Filled(Len(close), NaN)
    ELSE LET typicalPrice == MFITypicalPrice(high, low, close)
             posFlow      == MFIPosFlow(typicalPrice, volume)
             negFlow      == MFINegFlow(typicalPrice, volume)
         IN  MFILoop(posFlow, negFlow, window, window,
                     SumRange(posFlow, 1, window), SumRange(negFlow, 1, window),
                     Filled(Len(close), NaN))

--------------------------------------------------------------------------
(* indicators.go: Bollinger Bands %B *)

BollingerPercentBIndexes(close, window) ==
    IF Len(close) < window THEN {}
    ELSE SMAIndexes(close, window)
            \cup {i - j : i \in (window - 1)..(Len(close) - 1), j \in 0..(window - 1)}

BollingerPercentB(close, window, numStdDev) ==
    IF Len(close) < window THEN Filled(Len(close), NaN)
    ELSE LET sma == SMA(close, window)
         IN  [k \in 1..Len(close) |->
                LET i == k - 1
                IN  IF i < window - 1 THEN NaN
                    ELSE LET stdDev == Sqrt(RDiv(SumSqDev(close, i - window + 1, i,
                                                          At(sma, i)), Num(window)))
                             upper  == RAdd(At(sma, i), RMul(stdDev, numStdDev))
                             lower  == RSub(At(sma, i), RMul(stdDev, numStdDev))
                         IN  IF RNe(upper, lower)
                             THEN RDiv(RSub(At(close, i), lower), RSub(upper, lower))
                             ELSE R(1, 2)]

--------------------------------------------------------------------------
(* indicators.go: Rolling Percentile (0-100) *)

\* v * float64(direction), direction being +1 or -1 at every call site
DirectedIgnored(v, direction) == v

Directed(v, direction) ==
    IF direction = 1 THEN v
    ELSE IF direction = -1 THEN RNeg(v)
    ELSE RMul(v, Num(direction))

\* First index of the history window of i.
RollingStart(i, window) == IF i - window + 1 < 0 THEN 0 ELSE i - window + 1

\* buf: the valid values of values[start..i], each times direction
RollingBuf(values, i, window, direction) ==
    SelectSeq([k \in 1..(i - RollingStart(i, window) + 1) |->
                    Directed(At(values, RollingStart(i, window) + k - 1), direction)],
              LAMBDA v : ~IsNaN(v))

\* countSmaller: the values of buf that are <= currentVal
CountStrictlySmaller(buf, currentVal) ==
    Cardinality({k \in 1..Len(buf) : RLt(buf[k], currentVal)})

CountSmaller(buf, currentVal) ==
    Cardinality({k \in 1..Len(buf) : RLe(buf[k], currentVal)})

RollingScoreAtPartial(values, i, window, direction) ==
    IF IsNaN(At(values, i)) THEN NaN
    ELSE LET buf == RollingBuf(values, i, window, direction)
         IN  IF Len(buf) = 0 THEN NaN
             ELSE RMul(RDiv(Num(CountSmaller(buf, Directed(At(values, i), direction))),
                            Num(Len(buf))),
                       Num(100))

RollingScoreAt(values, i, window, direction) ==
    IF IsNaN(At(values, i)) THEN NaN
    ELSE IF i < window - 1 THEN NaN
    ELSE LET buf == RollingBuf(values, i, window, direction)
         IN  IF Len(buf) = 0 THEN NaN
             ELSE RMul(RDiv(Num(CountSmaller(buf, Directed(At(values, i), direction))),
                            Num(Len(buf))),
                       Num(100))

RollingScore(values, window, direction) ==
    [k \in 1..Len(values) |-> RollingScoreAt(values, k - 1, window, direction)]

--------------------------------------------------------------------------
(* engine.go: configuration and weights *)

DefaultConfig ==
    [NormWindow |-> 252, MAFast |-> 20, MASlow |-> 60, MomWindow |-> 20,
     VolWindow |-> 20, RSIWindow |-> 14, DDWindow |-> 252]

Weights ==
    [trend |-> R(15, 100), momentum |-> R(15, 100), rsi |-> R(10, 100),
     macd |-> R(10, 100), drawdown |-> R(10, 100), volatility |-> R(10, 100),
     mfi |-> R(15, 100), bb_pct_b |-> R(15, 100)]

\* The sub-indicators, in the order Compute adds them.
Keys == <<"trend", "momentum", "rsi", "macd", "drawdown", "volatility",
          "mfi", "bb_pct_b">>

--------------------------------------------------------------------------
(* engine.go: LabelFromScore *)

\* The Chinese table is written in pinyin: "jidu kongju" (Extreme Fear),
\* "kongju" (Fear), "zhongxing" (Neutral), "tanlan" (Greed),
\* "jidu tanlan" (Extreme Greed).
LabelFromScoreStrict(s, lng) ==
    IF IsNaN(s) THEN "-"
    ELSE IF lng = "en"
    THEN IF RLt(s, Num(25)) THEN "Extreme Fear"
         ELSE IF RLt(s, Num(45)) THEN "Fear"
         ELSE IF RLt(s, Num(55)) THEN "Neutral"
         ELSE IF RLe(s, Num(75)) THEN "Greed"
         ELSE "Extreme Greed"
    ELSE IF RLt(s, Num(25)) THEN "jidu kongju"
         ELSE IF RLt(s, Num(45)) THEN "kongju"
         ELSE IF RLe(s, Num(55)) THEN "zhongxing"
         ELSE IF RLe(s, Num(75)) THEN "tanlan"
         ELSE "jidu tanlan"

LabelFromScoreNoNaN(s, lng) ==
    IF lng = "en"
    THEN IF RLt(s, Num(25)) THEN "Extreme Fear"
         ELSE IF RLt(s, Num(45)) THEN "Fear"
         ELSE IF RLe(s, Num(55)) THEN "Neutral"
         ELSE IF RLe(s, Num(75)) THEN "Greed"
         ELSE "Extreme Greed"
    ELSE IF RLt(s, Num(25)) THEN "jidu kongju"
         ELSE IF RLt(s, Num(45)) THEN "kongju"
         ELSE IF RLe(s, Num(55)) THEN "zhongxing"
         ELSE IF RLe(s, Num(75)) THEN "tanlan"
         ELSE "jidu tanlan"

LabelFromScore(s, lng) ==
    IF IsNaN(s) THEN "-"
    ELSE IF lng = "en"
    THEN IF RLt(s, Num(25)) THEN "Extreme Fear"
         ELSE IF RLt(s, Num(45)) THEN "Fear"
         ELSE IF RLe(s, Num(55)) THEN "Neutral"
         ELSE IF RLe(s, Num(75)) THEN "Greed"
         ELSE "Extreme Greed"
    ELSE IF RLt(s, Num(25)) THEN "jidu kongju"
         ELSE IF RLt(s, Num(45)) THEN "kongju"
         ELSE IF RLe(s, Num(55)) THEN "zhongxing"
         ELSE IF RLe(s, Num(75)) THEN "tanlan"
         ELSE "jidu tanlan"

--------------------------------------------------------------------------
(* engine.go: Compute *)

Closes(prices)  == [k \in 1..Len(prices) |-> prices[k].Close]
Volumes(prices) == [k \in 1..Len(prices) |-> prices[k].Volume]
Highs(prices)   == [k \in 1..Len(prices) |-> prices[k].High]
Lows(prices)    == [k \in 1..Len(prices) |-> prices[k].Low]

\* "Adjust norm window if not enough data"
ClampWindowNoFloor(configured, n) == IF n < configured THEN n ELSE configured

ClampWindow(configured, n) ==
    LET w == IF n < configured THEN n ELSE configured
    IN  IF w < 10 THEN 10 ELSE w

TrendRaw(closes, maFast, maSlow) ==
    [k \in 1..Len(closes) |->
        LET t1 == IF RGt(maFast[k], Num(0))
                  THEN RSub(RDiv(closes[k], maFast[k]), Num(1)) ELSE Num(0)
            t2 == IF RGt(maSlow[k], Num(0))
                  THEN RSub(RDiv(closes[k], maSlow[k]), Num(1)) ELSE Num(0)
        IN  RAdd(RMul(R(1, 2), t1), RMul(R(1, 2), t2))]

RECURSIVE MaxClose(_, _, _, _)
\* the rolling-max loop over closes[j..i], starting from maxP
MaxClose(closes, j, i, maxP) ==
    IF j > i THEN maxP
    ELSE MaxClose(closes, j + 1, i,
                  IF RGt(At(closes, j), maxP) THEN At(closes, j) ELSE maxP)

DrawdownRaw(closes, ddWindow) ==
    [k \in 1..Len(closes) |->
        LET i     == k - 1
            start == IF i - ddWindow + 1 < 0 THEN 0 ELSE i - ddWindow + 1
            maxP  == MaxClose(closes, start, i, Num(0))
        IN  IF RGt(maxP, Num(0)) THEN RSub(RDiv(At(closes, i), maxP), Num(1))
            ELSE Num(0)]

\* Step 1, "Calculate Raw Indicators": whether a library call panics.
RawPanics(prices, c) ==
    LET closes == Closes(prices)
        n      == Len(prices)
    IN  \/ OutOfRange(n, SMAIndexes(closes, c.MAFast))
        \/ OutOfRange(n, SMAIndexes(closes, c.MASlow))
        \/ OutOfRange(n, MomentumIndexes(closes, c.MomWindow))
        \/ OutOfRange(n, RSIIndexes(closes, c.RSIWindow))
        \/ OutOfRange(n, RealizedVolIndexes(closes, c.VolWindow))
        \/ OutOfRange(n, MFIIndexes(closes, 14))
        \/ OutOfRange(n, BollingerPercentBIndexes(closes, 20))

RawIndicators(prices, c) ==
    LET closes == Closes(prices)
    IN  [trend      |-> TrendRaw(closes, SMA(closes, c.MAFast), SMA(closes, c.MASlow)),
         momentum   |-> Momentum(closes, c.MomWindow),
         rsi        |-> RSI(closes, c.RSIWindow),
         macd       |-> MACD(closes),
         volatility |-> RealizedVol(closes, c.VolWindow),
         mfi        |-> MFI(Highs(prices), Lows(prices), closes, Volumes(prices), 14),
         bb_pct_b   |-> BollingerPercentB(closes, 20, Num(2)),
         drawdown   |-> DrawdownRaw(closes, c.DDWindow)]

\* Step 2, "Normalize to Scores (0-100)"
Direction(key) == IF key = "volatility" THEN -1 ELSE 1

SubScores(r, w) == [key \in DOMAIN r |-> RollingScore(r[key], w, Direction(key))]

\* The closure add(key, val) applied to the running sums.
AddWeightAlways(acc, key, val) ==
    [scoreSum |-> IF ~IsNaN(val) THEN RAdd(acc.scoreSum, RMul(val, weights[key]))
                  ELSE acc.scoreSum,
     wSum     |-> RAdd(acc.wSum, weights[key])]

AddUnweighted(acc, key, val) ==
    IF ~IsNaN(val)
    THEN [scoreSum |-> RAdd(acc.scoreSum, val),
          wSum     |-> RAdd(acc.wSum, weights[key])]
    ELSE acc

Add(acc, key, val) ==
    IF ~IsNaN(val)
    THEN [scoreSum |-> RAdd(acc.scoreSum, RMul(val, weights[key])),
          wSum     |-> RAdd(acc.wSum, weights[key])]
    ELSE acc

RECURSIVE AddAll(_, _, _)
\* the eight add calls, in order, on the sub-scores v of one bar
AddAll(acc, v, k) ==
    IF k > Len(Keys) THEN acc ELSE AddAll(Add(acc, Keys[k], v[Keys[k]]), v, k + 1)

\* Date and Price ("Fill price") of the ScoreResult of bar i
ResultHeadOpen(prices, i) == [Date |-> At(prices, i).Date, Price |-> At(prices, i).Open]

ResultHead(prices, i) == [Date |-> At(prices, i).Date, Price |-> At(prices, i).Close]

\* Step 3, "Aggregate": the ScoreResult of bar i
ScoreResult(prices, r, s, i, lng) ==
    LET v    == [key \in DOMAIN s |-> At(s[key], i)]
        sums == AddAll([scoreSum |-> Num(0), wSum |-> Num(0)], v, 1)
        score == IF RGt(sums.wSum, Num(0)) THEN RDiv(sums.scoreSum, sums.wSum) ELSE NaN
    IN  [Date   |-> ResultHead(prices, i).Date,
         Price  |-> ResultHead(prices, i).Price,
         Score  |-> score,
         Label  |-> IF RGt(sums.wSum, Num(0)) THEN LabelFromScore(score, lng) ELSE "-",
         Values |-> v,
         Raw    |-> [trend |-> At(r.trend, i), momentum |-> At(r.momentum, i),
                     rsi |-> At(r.rsi, i), macd |-> At(r.macd, i),
                     drawdown |-> At(r.drawdown, i), volatility |-> At(r.volatility, i)]]

--------------------------------------------------------------------------
(* The inputs Compute is called with *)

\* Longest price series.
MaxBars == 20

\* Close of bar i in price shape p: flat, rising stairs, zigzag, a cycle
\* through a zero close, falling stairs.
ShapeClose(p, i) ==
    CASE p = 1 -> 2
      [] p = 2 -> 1 + (i \div 7)
      [] p = 3 -> 2 + (i % 2)
      [] p = 4 -> i % 3
      [] p = 5 -> 4 - (i \div 7)

Shapes == 1..5

\* Bar i: dates strictly ascending, prices and volume non-negative.
Bar(p, i) ==
    [Date   |-> 1 + i,
     Open   |-> Num(ShapeClose(p, IF i = 0 THEN 0 ELSE i - 1)),
     High   |-> Num(ShapeClose(p, i) + 1),
     Low    |-> Num(ShapeClose(p, i)),
     Close  |-> Num(ShapeClose(p, i)),
     Volume |-> Num(IF p = 4 THEN i % 2 ELSE 1 + (i % 2))]

PriceFrames == {[k \in 1..n |-> Bar(p, k - 1)] : n \in 0..MaxBars, p \in Shapes}

\* Indicator windows: the defaults, short windows that warm up within
\* MaxBars, and a zero fast window.
SmallConfig ==
    [NormWindow |-> 252, MAFast |-> 2, MASlow |-> 3, MomWindow |-> 2,
     VolWindow |-> 2, RSIWindow |-> 2, DDWindow |-> 3]

NormWindows == {-1, 0, 12, 252}

Configs ==
    {[c EXCEPT !.NormWindow = w] :
        c \in {DefaultConfig, SmallConfig, [DefaultConfig EXCEPT !.MAFast = 0]},
        w \in NormWindows}

Langs == {"en", "zh"}

None == <<>>

\* Longest series handed to RollingScore directly, and the largest window.
MaxSeries == 4

SeriesValues == {NaN, Num(-1), Num(0), Num(2)}

RECURSIVE SeriesOfLen(_)
SeriesOfLen(n) ==
    IF n = 0 THEN {<<>>}
    ELSE {Append(s, v) : s \in SeriesOfLen(n - 1), v \in SeriesValues}

RollingScoreCalls ==
    {[fn |-> "RollingScore", values |-> s, window |-> w, direction |-> dr] :
        s \in UNION {SeriesOfLen(n) : n \in 0..MaxSeries},
        w \in -1..MaxSeries, dr \in {1, -1}}

\* The raw indicators called directly: bars from the price shapes, windows
\* from 1 up.
MaxIndicatorBars == 7

MaxWindow == 4

IndicatorNames ==
    {"SMA", "Momentum", "RSI", "EMA", "MACD", "RealizedVol", "MFI", "BollingerPercentB"}

IndicatorCalls ==
    {[fn |-> name, prices |-> f, window |-> w] :
        name \in IndicatorNames,
        f \in {g \in PriceFrames : Len(g) <= MaxIndicatorBars},
        w \in 1..MaxWindow}

\* The library function called, on the series of the price frame.
Indicator(name, prices, window) ==
    CASE name = "SMA" -> SMA(Closes(prices), window)
      [] name = "Momentum" -> Momentum(Closes(prices), window)
      [] name = "RSI" -> RSI(Closes(prices), window)
      [] name = "EMA" -> EMA(Closes(prices), window)
      [] name = "MACD" -> MACD(Closes(prices))
      [] name = "RealizedVol" -> RealizedVol(Closes(prices), window)
      [] name = "MFI" -> MFI(Highs(prices), Lows(prices), Closes(prices),
                             Volumes(prices), window)
      [] name = "BollingerPercentB" -> BollingerPercentB(Closes(prices), window, Num(2))

\* Scores handed to LabelFromScore directly: NaN and the multiples of
\* 1/LabelGrid from 0 to 100.
LabelGrid == 10

LabelFromScoreCalls ==
    {[fn |-> "LabelFromScore", s |-> x, lang |-> l] :
        x \in {NaN} \cup {R(k, LabelGrid) : k \in 0..(100 * LabelGrid)}, l \in Langs}

--------------------------------------------------------------------------
(* A caller of the package: one call of Compute, RollingScore or           *)
(* LabelFromScore, Compute running step by step.                           *)

InitCompute ==
    /\ call = [fn |-> "Compute"]
    /\ pf \in PriceFrames
    /\ cfg \in Configs
    /\ lang \in Langs

InitDirect ==
    /\ call \in RollingScoreCalls \cup LabelFromScoreCalls \cup IndicatorCalls
    /\ pf = None
    /\ cfg = None
    /\ lang = None

\* the package-level variables as the program starts
InitGlobals ==
    /\ weights = Weights
    /\ defaultConfig = DefaultConfig

\* a call at its entry: no local is set yet
InitLocals ==
    /\ pc = "start"
    /\ normWindow = 0
    /\ raw = None
    /\ sub = None
    /\ results = None
    /\ ret = None

\* no request has been served: the cache is empty
InitServer ==
    /\ memCache = <<>>
    /\ storedBy = <<>>
    /\ request = None
    /\ fetched = None
    /\ response = None
    /\ served = 0

Init ==
    /\ InitCompute \/ InitDirect
    /\ InitLocals
    /\ InitGlobals
    /\ InitServer
    /\ history = <<>>

CallRollingScore ==
    /\ pc = "start"
    /\ call.fn = "RollingScore"
    /\ call.window >= 0
    /\ ret' = RollingScore(call.values, call.window, call.direction)
    /\ pc' = "returned"
    /\ UNCHANGED <<globals, history, server, pf, cfg, lang, normWindow, raw, sub, results, call>>

CallIndicator ==
    /\ pc = "start"
    /\ call.fn \in IndicatorNames
    /\ ret' = Indicator(call.fn, call.prices, call.window)
    /\ pc' = "returned"
    /\ UNCHANGED <<globals, history, server, pf, cfg, lang, normWindow, raw, sub, results, call>>

CallLabelFromScore ==
    /\ pc = "start"
    /\ call.fn = "LabelFromScore"
    /\ ret' = LabelFromScore(call.s, call.lang)
    /\ pc' = "returned"
    /\ UNCHANGED <<globals, history, server, pf, cfg, lang, normWindow, raw, sub, results, call>>

\* make([]float64, 0, window) with a negative capacity: a runtime panic
PanicRollingScore ==
    /\ pc = "start"
    /\ call.fn = "RollingScore"
    /\ call.window < 0
    /\ pc' = "panic"
    /\ UNCHANGED <<globals, history, server, pf, cfg, lang, normWindow, raw, sub, results, call, ret>>

\* n == 0 missed: the call goes on to the indicators
ReturnNilFallsThrough ==
    /\ pc = "start"
    /\ call.fn = "Compute"
    /\ Len(pf) = 0
    /\ normWindow' = ClampWindow(cfg.NormWindow, Len(pf))
    /\ pc' = "raw"
    /\ UNCHANGED <<globals, history, server, pf, cfg, lang, raw, sub, results, call, ret>>

\* n == 0: return nil
ReturnNil ==
    /\ pc = "start"
    /\ call.fn = "Compute"
    /\ Len(pf) = 0
    /\ pc' = "done"
    /\ UNCHANGED <<globals, history, server, pf, cfg, lang, normWindow, raw, sub, results, call, ret>>

\* extract the series and clamp the normalization window
Begin ==
    /\ pc = "start"
    /\ call.fn = "Compute"
    /\ Len(pf) # 0
    /\ normWindow' = ClampWindow(cfg.NormWindow, Len(pf))
    /\ pc' = "raw"
    /\ UNCHANGED <<globals, history, server, pf, cfg, lang, raw, sub, results, call, ret>>

\* 1. Calculate Raw Indicators
CalcRaw ==
    /\ pc = "raw"
    /\ ~RawPanics(pf, cfg)
    /\ raw' = RawIndicators(pf, cfg)
    /\ pc' = "norm"
    /\ UNCHANGED <<globals, history, server, pf, cfg, lang, normWindow, sub, results, call, ret>>

\* a library call indexes out of range: the call ends in a runtime panic
Panic ==
    /\ pc = "raw"
    /\ RawPanics(pf, cfg)
    /\ pc' = "panic"
    /\ UNCHANGED <<globals, history, server, pf, cfg, lang, normWindow, raw, sub, results, call, ret>>

\* 2. Normalize to Scores (0-100)
Normalize ==
    /\ pc = "norm"
    /\ sub' = SubScores(raw, normWindow)
    /\ pc' = "agg"
    /\ UNCHANGED <<globals, history, server, pf, cfg, lang, normWindow, raw, results, call, ret>>

\* 3. Aggregate: one pass of the loop over the bars
AggregateBar ==
    /\ pc = "agg"
    /\ Len(results) < Len(pf)
    /\ results' = Append(results, ScoreResult(pf, raw, sub, Len(results), lang))
    /\ UNCHANGED <<globals, history, server, pf, cfg, lang, pc, normWindow, raw, sub, call, ret>>

\* return results, after rescaling an entry of the global Weights table
ReturnRescalingWeights ==
    /\ pc = "agg"
    /\ Len(results) = Len(pf)
    /\ pc' = "done"
    /\ weights' = [weights EXCEPT !.trend = RMul(@, Num(2))]
    /\ UNCHANGED <<defaultConfig, history, server, pf, cfg, lang, normWindow, raw,
                   sub, results, call, ret>>

\* return results
Return ==
    /\ pc = "agg"
    /\ Len(results) = Len(pf)
    /\ pc' = "done"
    /\ UNCHANGED <<globals, history, server, pf, cfg, lang, normWindow, raw, sub, results, call, ret>>

Next ==
    \/ ReturnNil \/ Begin \/ CalcRaw \/ Panic \/ Normalize \/ AggregateBar \/ Return
    \/ CallRollingScore \/ PanicRollingScore \/ CallLabelFromScore \/ CallIndicator

Spec == Init /\ [][Next]_vars

--------------------------------------------------------------------------
(* Properties *)

InCompute == call.fn = "Compute"

ComputeDone == InCompute /\ pc = "done"

Returned(fn) == call.fn = fn /\ pc = "returned"

\* The eight sub-scores of the bar with sequence position k.
SubAt(k) == [key \in DOMAIN sub |-> sub[key][k]]

Defined(v) == {key \in DOMAIN v : ~IsNaN(v[key])}

\* C1: for a non-empty price series of length n Compute returns exactly n
\* records, and record i carries the date and the close of input bar i
\* (the records built so far are aligned the same way while the loop runs).
C1_OneRecordPerBar ==
    (InCompute /\ Len(pf) > 0) =>
        /\ pc = "done" => Len(results) = Len(pf)
        /\ \A k \in 1..Len(results) :
              k <= Len(pf) /\ results[k].Date = pf[k].Date
                           /\ results[k].Price = pf[k].Close

C1_Witness ==
    /\ ComputeDone
    /\ Len(pf) = MaxBars
    /\ Len(results) = MaxBars
    /\ results[MaxBars].Date = pf[MaxBars].Date
    /\ results[MaxBars].Price = pf[MaxBars].Close
    /\ pf[MaxBars].Close # pf[MaxBars].Open

\* C2: in Compute's output the aggregate score of a bar is NaN if and only
\* if none of the bar's eight sub-scores is defined.
C2_ScoreUndefinedIffNoSubScore ==
    ComputeDone =>
        \A k \in 1..Len(results) :
            IsNaN(results[k].Score) <=> Defined(SubAt(k)) = {}

C2_Witness ==
    /\ ComputeDone
    /\ \E k \in 1..Len(results) : Defined(SubAt(k)) = {} /\ IsNaN(results[k].Score)
    /\ \E k \in 1..Len(results) :
          /\ Defined(SubAt(k)) # {}
          /\ Defined(SubAt(k)) # DOMAIN sub
          /\ ~IsNaN(results[k].Score)

RECURSIVE SumOver(_, _)
\* the sum of f[key] over the keys in S
SumOver(S, f) ==
    IF S = {} THEN Num(0)
    ELSE LET key == CHOOSE x \in S : TRUE
         IN  RAdd(f[key], SumOver(S \ {key}, f))

\* sum(subScore * weight) / sum(weight), both over the defined sub-scores
WeightedMean(v) ==
    RDiv(SumOver(Defined(v), [key \in DOMAIN v |-> RMul(v[key], Weights[key])]),
         SumOver(Defined(v), Weights))

\* C3: for every bar with at least one defined sub-score the aggregate is
\* the weighted mean of the defined sub-scores over the weights of those
\* same sub-scores; if all defined sub-scores are equal to x, it is x.
C3_WeightedMeanOfDefined ==
    ComputeDone =>
        \A k \in 1..Len(results) :
            Defined(SubAt(k)) # {} =>
                /\ results[k].Score = WeightedMean(SubAt(k))
                /\ \A a \in Defined(SubAt(k)) :
                      (\A b \in Defined(SubAt(k)) : SubAt(k)[b] = SubAt(k)[a])
                          => results[k].Score = SubAt(k)[a]

C3_Witness ==
    /\ ComputeDone
    /\ \E k \in 1..Len(results) :
          /\ Defined(SubAt(k)) = DOMAIN sub
          /\ \A b \in DOMAIN sub : SubAt(k)[b] = SubAt(k).trend
          /\ results[k].Score = SubAt(k).trend
    /\ \E k \in 1..Len(results) :
          /\ Defined(SubAt(k)) # {}
          /\ Defined(SubAt(k)) # DOMAIN sub
          /\ results[k].Score = SubAt(k).trend

\* The five buckets, by the boundaries of the claim.
Bucket(s) ==
    IF RLt(s, Num(25)) THEN 1
    ELSE IF RLt(s, Num(45)) THEN 2
    ELSE IF RLe(s, Num(55)) THEN 3
    ELSE IF RLe(s, Num(75)) THEN 4
    ELSE 5

\* The text of each bucket: the English table, and the other one.
BucketText(lng) ==
    IF lng = "en" THEN <<"Extreme Fear", "Fear", "Neutral", "Greed", "Extreme Greed">>
    ELSE <<"jidu kongju", "kongju", "zhongxing", "tanlan", "jidu tanlan">>

\* C4: LabelFromScore maps a defined score to the text of its bucket
\* (s<25, 25<=s<45, 45<=s<=55, 55<s<=75, s>75) in the table of the given
\* language, so both tables use the same bucket for the same score; the
\* labels in Compute's output follow the same rule.
C4_LabelBuckets ==
    /\ (Returned("LabelFromScore") /\ ~IsNaN(call.s)) =>
            ret = BucketText(call.lang)[Bucket(call.s)]
    /\ InCompute =>
            \A k \in 1..Len(results) :
                ~IsNaN(results[k].Score) =>
                    results[k].Label = BucketText(lang)[Bucket(results[k].Score)]

C4_Witness ==
    /\ Returned("LabelFromScore")
    /\ call.s = Num(55)
    /\ call.lang = "zh"
    /\ ret = "zhongxing"

\* C5: an undefined score is labelled "-" in every language and a defined
\* score never is: LabelFromScore returns "-" exactly for NaN, and in
\* Compute's output a record's label is "-" exactly when its score is NaN.
C5_NoDataMarker ==
    /\ Returned("LabelFromScore") => (ret = "-" <=> IsNaN(call.s))
    /\ InCompute =>
            \A k \in 1..Len(results) :
                results[k].Label = "-" <=> IsNaN(results[k].Score)

C5_Witness ==
    /\ ComputeDone
    /\ \E k \in 1..Len(results) : IsNaN(results[k].Score) /\ results[k].Label = "-"
    /\ \E k \in 1..Len(results) : ~IsNaN(results[k].Score) /\ results[k].Label # "-"

\* The positions of the trailing window i-window+1..i that exist.
WindowPositions(i, window) == {j \in (i - window + 1)..i : j >= 0}

\* The positions of the trailing window that hold a valid value.
ValidPositions(values, i, window) ==
    {j \in WindowPositions(i, window) : ~IsNaN(At(values, j))}

\* out is undefined at i exactly when i < window-1 or the window holds no
\* valid value.
UndefinedAsClaimed(values, out, window) ==
    \A i \in Idx(values) :
        IsNaN(At(out, i)) <=>
            (i < window - 1 \/ ValidPositions(values, i, window) = {})

\* out is undefined at i exactly when i < window-1, values[i] is itself
\* undefined, or the window holds no valid value.
UndefinedAsAmended(values, out, window) ==
    \A i \in Idx(values) :
        IsNaN(At(out, i)) <=>
            \/ i < window - 1
            \/ IsNaN(At(values, i))
            \/ ValidPositions(values, i, window) = {}

\* C6 as claimed: the normalizer output at i is undefined exactly when
\* i < window-1 or the trailing window contains zero valid values.
C6_Original ==
    /\ Returned("RollingScore") =>
            UndefinedAsClaimed(call.values, ret, call.window)
    /\ ComputeDone =>
            \A key \in DOMAIN sub : UndefinedAsClaimed(raw[key], sub[key], normWindow)

\* C6 as amended: the normalizer output at i is undefined exactly when
\* i < window-1, or series[i] is itself undefined, or the trailing window
\* contains zero valid values; at every other index it is defined.
C6_UndefinedExactly ==
    /\ Returned("RollingScore") =>
            UndefinedAsAmended(call.values, ret, call.window)
    /\ ComputeDone =>
            \A key \in DOMAIN sub : UndefinedAsAmended(raw[key], sub[key], normWindow)

C6_Witness ==
    /\ Returned("RollingScore")
    /\ \E i \in Idx(call.values) :
          /\ i >= call.window - 1
          /\ IsNaN(At(call.values, i))
          /\ ValidPositions(call.values, i, call.window) # {}
          /\ IsNaN(At(ret, i))
    /\ \E i \in Idx(call.values) : ~IsNaN(At(ret, i))

\* v times direction is <= u times direction, for direction +1 or -1
DirectedLe(v, u, direction) == IF direction = 1 THEN RLe(v, u) ELSE RLe(u, v)

\* 100*c/m: m the number of valid values in the trailing window of i, c the
\* number of them that are, times direction, <= values[i] times direction
Percentile(values, i, window, direction) ==
    LET V == ValidPositions(values, i, window)
        c == Cardinality({j \in V : DirectedLe(At(values, j), At(values, i), direction)})
    IN  R(100 * c, Cardinality(V))

InRange(x) == RLe(Num(0), x) /\ RLe(x, Num(100))

PercentileWhereDefined(values, out, window, direction) ==
    \A i \in Idx(values) :
        ~IsNaN(At(out, i)) =>
            /\ At(out, i) = Percentile(values, i, window, direction)
            /\ InRange(At(out, i))

\* C7: wherever the normalizer output is defined it equals 100*c/m (ties
\* counted inclusively), so it lies in [0,100]; so does every defined
\* sub-score of Compute's output.
C7_PercentileRank ==
    /\ Returned("RollingScore") =>
            PercentileWhereDefined(call.values, ret, call.window, call.direction)
    /\ ComputeDone =>
            /\ \A key \in DOMAIN sub :
                  PercentileWhereDefined(raw[key], sub[key], normWindow, Direction(key))
            /\ \A k \in 1..Len(results) : \A key \in DOMAIN results[k].Values :
                  ~IsNaN(results[k].Values[key]) => InRange(results[k].Values[key])

C7_Witness ==
    /\ Returned("RollingScore")
    /\ call.direction = -1
    /\ \E i \in Idx(call.values) :
          /\ ~IsNaN(At(ret, i))
          /\ Cardinality(ValidPositions(call.values, i, call.window)) = 3
          /\ \E j \in ValidPositions(call.values, i, call.window) :
                j # i /\ At(call.values, j) = At(call.values, i)
          /\ At(ret, i) = R(200, 3)

\* The valid values of the trailing window of i are pairwise different.
NoTies(values, i, window) ==
    \A j1, j2 \in ValidPositions(values, i, window) :
        j1 # j2 => At(values, j1) # At(values, j2)

\* C8 as claimed: where the output is defined and the window has no ties,
\* RollingScore(s, w, -1)[i] = 100 - RollingScore(s, w, +1)[i].
C8_Original ==
    (Returned("RollingScore") /\ call.direction = -1) =>
        \A i \in Idx(call.values) :
            (~IsNaN(At(ret, i)) /\ NoTies(call.values, i, call.window)) =>
                At(ret, i) = RSub(Num(100),
                                  At(RollingScore(call.values, call.window, 1), i))

\* C8 as amended: where the output is defined and the window has no ties,
\* RollingScore(s, w, -1)[i] = 100 - RollingScore(s, w, +1)[i] + 100/m,
\* m being the number of valid values in the trailing window (the value at
\* i counts as "not greater" in both directions).
C8_DirectionMirror ==
    (Returned("RollingScore") /\ call.direction = -1) =>
        \A i \in Idx(call.values) :
            (~IsNaN(At(ret, i)) /\ NoTies(call.values, i, call.window)) =>
                At(ret, i) =
                    RAdd(RSub(Num(100),
                              At(RollingScore(call.values, call.window, 1), i)),
                         R(100, Cardinality(ValidPositions(call.values, i, call.window))))

C8_Witness ==
    /\ Returned("RollingScore")
    /\ call.direction = -1
    /\ \E i \in Idx(call.values) :
          /\ ~IsNaN(At(ret, i))
          /\ NoTies(call.values, i, call.window)
          /\ Cardinality(ValidPositions(call.values, i, call.window)) = 3
          /\ At(ret, i) = R(200, 3)

Max(a, b) == IF a >= b THEN a ELSE b

Min(a, b) == IF a <= b THEN a ELSE b

\* C9: for every configured window c (zero and negative included) and
\* every length n >= 1, the window Compute hands to the eight normalizer
\* calls is max(10, min(c, n)).
C9_ClampedWindow ==
    (InCompute /\ Len(pf) >= 1 /\ pc # "start") =>
        /\ normWindow = Max(10, Min(cfg.NormWindow, Len(pf)))
        /\ pc = "done" =>
              \A key \in DOMAIN sub :
                  sub[key] = RollingScore(raw[key],
                                          Max(10, Min(cfg.NormWindow, Len(pf))),
                                          Direction(key))

C9_Witness ==
    /\ ComputeDone
    /\ cfg.NormWindow <= 0
    /\ Len(pf) > 10
    /\ normWindow = 10
    /\ ~IsNaN(results[10].Score)

\* C10: for a series of 1..9 bars and the default indicator windows Compute
\* does not panic, and it returns one record per bar with every sub-score
\* and the aggregate undefined and the label "-".
C10_ShortSeries ==
    (InCompute /\ Len(pf) \in 1..9
               /\ [cfg EXCEPT !.NormWindow = DefaultConfig.NormWindow] = DefaultConfig) =>
        /\ pc # "panic"
        /\ pc = "done" =>
              /\ Len(results) = Len(pf)
              /\ \A k \in 1..Len(results) :
                    /\ Defined(results[k].Values) = {}
                    /\ IsNaN(results[k].Score)
                    /\ results[k].Label = "-"

C10_Witness ==
    /\ ComputeDone
    /\ Len(pf) = 9
    /\ cfg = DefaultConfig
    /\ Len(results) = 9
    /\ IsNaN(results[9].Score)

\* C11: Compute on a price frame with zero bars returns the empty sequence
\* for every config and language: the call goes from its entry straight to
\* its return, no window is clamped, no indicator is evaluated, and there
\* is no panic.
C11_EmptyInput ==
    (InCompute /\ Len(pf) = 0) =>
        /\ pc \in {"start", "done"}
        /\ normWindow = 0
        /\ raw = None
        /\ sub = None
        /\ results = <<>>

C11_Witness ==
    /\ ComputeDone
    /\ Len(pf) = 0
    /\ cfg.MAFast = 0
    /\ lang = "zh"
    /\ results = <<>>

--------------------------------------------------------------------------
(* A caller that calls Compute several times, one call after the other.   *)

\* Number of Compute calls in a row.
MaxCalls == 3

\* The price frames and configs of the repeated calls: the empty frame and
\* a 12-bar frame; short windows, and a zero fast window (which panics).
CallFrames == {f \in PriceFrames : Len(f) \in {0, 12} /\ (Len(f) > 0 => f[1] = Bar(4, 0))}

CallConfigs == {c \in Configs : c.NormWindow = 12 /\ c.MASlow # DefaultConfig.MASlow}
                  \cup {c \in Configs : c.NormWindow = 12 /\ c.MAFast = 0}

InitCalls ==
    /\ call = [fn |-> "Compute"]
    /\ pf \in CallFrames
    /\ cfg \in CallConfigs
    /\ lang \in Langs
    /\ InitLocals
    /\ InitGlobals
    /\ InitServer
    /\ history = <<>>

\* What the finished call handed to its caller.
Outcome == [panic |-> pc = "panic", results |-> results]

\* The caller records the finished call and makes the next one: every local
\* of Compute is created afresh, the package-level variables stay.
NextCall ==
    /\ call.fn = "Compute"
    /\ pc \in {"done", "panic"}
    /\ Len(history) + 1 < MaxCalls
    /\ history' = Append(history, [pf |-> pf, cfg |-> cfg, lang |-> lang, out |-> Outcome])
    /\ pf' \in CallFrames
    /\ cfg' \in CallConfigs
    /\ lang' \in Langs
    /\ pc' = "start"
    /\ normWindow' = 0
    /\ raw' = None
    /\ sub' = None
    /\ results' = None
    /\ UNCHANGED <<globals, server, call, ret>>

NextCalls ==
    \/ ReturnNil \/ Begin \/ CalcRaw \/ Panic \/ Normalize \/ AggregateBar \/ Return
    \/ NextCall

SpecCalls == InitCalls /\ [][NextCalls]_vars

SameArguments(h) == h.pf = pf /\ h.cfg = cfg /\ h.lang = lang

--------------------------------------------------------------------------
(* Properties of the raw indicators *)

\* C14: the raw trend value of Compute is undefined wherever the fast or
\* the slow moving average is undefined, and so is the trend sub-score.
C14_TrendUndefinedWithMA ==
    (InCompute /\ Len(pf) > 0 /\ pc \in {"agg", "done"}) =>
        \A i \in Idx(raw.trend) :
            (\/ IsNaN(At(SMA(Closes(pf), cfg.MAFast), i))
             \/ IsNaN(At(SMA(Closes(pf), cfg.MASlow), i))) =>
                /\ IsNaN(At(raw.trend, i))
                /\ IsNaN(At(sub.trend, i))

\* The indexes at which the series out is defined.
DefinedAt(out) == {i \in Idx(out) : ~IsNaN(At(out, i))}

\* The index set on which each raw indicator is documented to be defined.
DocumentedIndexes(name, values, w) ==
    CASE name \in {"SMA", "BollingerPercentB"} -> {i \in Idx(values) : i >= w - 1}
      [] name \in {"RSI", "MFI", "RealizedVol"} -> {i \in Idx(values) : i >= w}
      [] name = "Momentum" ->
            {i \in Idx(values) : i >= w /\ At(values, i - w) # Num(0)}
      [] name \in {"EMA", "MACD"} -> Idx(values)

\* close[j] >= close[j-1] for every j in 1..i: the smoothed average loss at
\* index i is 0
NoLossUpTo(values, i) == \A j \in 1..i : RLe(At(values, j - 1), At(values, j))

\* close[j] > close[j-1] for some j in 1..i: the smoothed average gain at
\* index i is > 0
SomeGainUpTo(values, i) == \E j \in 1..i : RLt(At(values, j - 1), At(values, j))

\* C15: RSI is undefined at every index when fewer than window+1 closes
\* exist; at every defined index (window and later) the score is exactly
\* 100 where the smoothed average loss is 0 and the smoothed average gain
\* is > 0, and 0 where both averages are 0.
C15_RSISpecialValues ==
    Returned("RSI") =>
        LET values == Closes(call.prices)
        IN  /\ Len(values) < call.window + 1 => DefinedAt(ret) = {}
            /\ \A i \in DefinedAt(ret) :
                  /\ i >= call.window
                  /\ (NoLossUpTo(values, i) /\ SomeGainUpTo(values, i)) =>
                        At(ret, i) = Num(100)
                  /\ (NoLossUpTo(values, i) /\ ~SomeGainUpTo(values, i)) =>
                        At(ret, i) = Num(0)

\* C16: for every length n >= 0 and window >= 1 each raw indicator is
\* defined exactly on its documented index set (SMA and BollingerPercentB
\* from w-1, RSI, MFI and RealizedVol from w, Momentum from w where the
\* divisor is not 0, EMA and MACD everywhere), and Compute's drawdown is
\* defined at every index.
C16_DefinedIndexSets ==
    /\ (pc = "returned" /\ call.fn \in IndicatorNames) =>
          /\ Len(ret) = Len(call.prices)
          /\ DefinedAt(ret) =
                DocumentedIndexes(call.fn, Closes(call.prices), call.window)
    /\ (InCompute /\ Len(pf) > 0 /\ pc \in {"norm", "agg", "done"}) =>
          DefinedAt(raw.drawdown) = Idx(Closes(pf))

C16_Witness ==
    /\ Returned("Momentum")
    /\ call.window = 3
    /\ Len(ret) = MaxIndicatorBars
    /\ IsNaN(At(ret, 3))
    /\ ~IsNaN(At(ret, 4))

--------------------------------------------------------------------------
(* api/handler.go: handleFearGreed *)

\* 3. Aggregate: the records of all bars, from the raw series r and the
\* sub-score series s
ComputeAggregate(prices, r, s, lng) ==
    [k \in 1..Len(prices) |-> ScoreResult(prices, r, s, k - 1, lng)]

\* 2. Normalize, then aggregate
ComputeNormalize(prices, r, w, lng) ==
    ComputeAggregate(prices, r, SubScores(r, w), lng)

\* Compute as one call: whether it panics, and what it returns.
Compute(prices, c, lng) ==
    IF Len(prices) = 0 THEN [panic |-> FALSE, results |-> <<>>]
    ELSE IF RawPanics(prices, c) THEN [panic |-> TRUE, results |-> <<>>]
    ELSE [panic   |-> FALSE,
          results |-> ComputeNormalize(prices, RawIndicators(prices, c),
                                       ClampWindow(c.NormWindow, Len(prices)), lng)]

Digits == <<"0", "1", "2", "3", "4", "5", "6", "7", "8", "9">>

RECURSIVE Itoa(_)
\* the %d verb / strconv.Itoa: the decimal text of k
Itoa(k) ==
    IF k < 0 THEN "-" \o Itoa(-k)
    ELSE IF k < 10 THEN Digits[k + 1]
    ELSE Itoa(k \div 10) \o Digits[(k % 10) + 1]

\* strconv.Atoi on the texts of small integers; any other text is an error.
Atoi(s) ==
    IF \E k \in -1..20 : Itoa(k) = s
    THEN [err |-> FALSE, v |-> CHOOSE k \in -1..20 : Itoa(k) = s]
    ELSE [err |-> TRUE, v |-> 0]

\* Dates are day numbers of January 2024; 0 is the zero time.Time.
ZeroTime == 0

Days == 1..31

\* Format("2006-01-02")
DateFormat(d) == "2024-01-" \o (IF d < 10 THEN "0" ELSE "") \o Itoa(d)

\* start, _ = time.Parse("2006-01-02", startStr): the zero time on error
ParseDate(s) ==
    IF \E d \in Days : DateFormat(d) = s
    THEN CHOOSE d \in Days : DateFormat(d) = s
    ELSE ZeroTime

\* start.AddDate(-2, 0, 0) and start.AddDate(0, -2, 0), in days, for a day
\* of January 2024
FetchStart(start, freq) ==
    IF start = ZeroTime THEN start
    ELSE IF freq = "1d" THEN start - 730 ELSE start - 61

DefaultWindow == 252

DefaultTail == 600

\* The request's parameters after defaulting and parsing.
Params(q) ==
    [ticker |-> q.ticker,
     freq   |-> IF q.freq = "" THEN "1d" ELSE q.freq,
     start  |-> q.start,
     lang   |-> IF q.lang = "" THEN "zh" ELSE q.lang,
     window |-> IF q.window # "" /\ ~Atoi(q.window).err
                THEN Atoi(q.window).v ELSE DefaultWindow,
     tail   |-> IF q.tail # "" /\ ~Atoi(q.tail).err
                THEN Atoi(q.tail).v ELSE DefaultTail]

\* fmt.Sprintf("%s-%s-%s-%s-%d-%d", ticker, freq, startStr, lang, window, tail)
CacheKey(p) ==
    p.ticker \o "-" \o p.freq \o "-" \o p.start \o "-" \o p.lang
        \o "-" \o Itoa(p.window) \o "-" \o Itoa(p.tail)

\* "Find the first date >= user requested start", else the tail; then
\* "Ensure bounds"
StartIdx(rs, start, tail) ==
    LET found == {i \in Idx(rs) : At(rs, i).Date >= start}
        first == IF start # ZeroTime
                 THEN IF found = {} THEN 0
                      ELSE CHOOSE i \in found : \A j \in found : i <= j
                 ELSE IF Len(rs) - tail < 0 THEN 0 ELSE Len(rs) - tail
        upper == IF first >= Len(rs) THEN Len(rs) - 1 ELSE first
    IN  IF upper < 0 THEN 0 ELSE upper

\* A JSON null (a nil pointer or a nil map)
Null == <<>>

\* safeSeries: the records from startIdx on, NaN scores as nil pointers
SafeSeries(rs, startIdx) ==
    [k \in 1..(Len(rs) - startIdx) |->
        LET r == At(rs, startIdx + k - 1)
        IN  [date  |-> DateFormat(r.Date),
             score |-> IF ~IsNaN(r.Score) THEN r.Score ELSE Null,
             label |-> r.Label,
             price |-> r.Price]]

\* latest: the last record, if it has a score
Latest(rs) ==
    IF Len(rs) > 0 /\ ~IsNaN(rs[Len(rs)].Score)
    THEN [date  |-> DateFormat(rs[Len(rs)].Date),
          score |-> rs[Len(rs)].Score,
          label |-> rs[Len(rs)].Label,
          price |-> rs[Len(rs)].Price]
    ELSE Null

\* latest_subscores: the eight sub-scores of the last record, as they are
LatestSubscores(rs) ==
    IF Len(rs) > 0 /\ ~IsNaN(rs[Len(rs)].Score)
    THEN rs[Len(rs)].Values
    ELSE Null

\* resp: the map handed to the cache and to the JSON encoder
Resp(p, rs) ==
    [ticker           |-> p.ticker,
     frequency        |-> p.freq,
     latest           |-> Latest(rs),
     series           |-> SafeSeries(rs, StartIdx(rs, ParseDate(p.start), p.tail)),
     method           |-> [reference_window_trading_days |-> p.window],
     components       |-> IF p.lang = "en" THEN "en" ELSE "zh",
     latest_subscores |-> LatestSubscores(rs)]

\* Requests served in a row.
MaxRequests == 2

\* Most query parameters a request gives besides the ticker.
MaxGiven == 1

Optional == {"freq", "start", "lang", "window", "tail"}

\* The URL queries: "" is a parameter that is not given.
Queries ==
    {q \in [ticker : {"", "BRK", "BRK-B"},
            freq   : {"", "1h", "B-1d"},
            start  : {"", "soon", DateFormat(5), DateFormat(20)},
            lang   : {"", "en"},
            window : {"", "10", "x"},
            tail   : {"", "2"}] :
        Cardinality({f \in Optional : q[f] # ""}) <= MaxGiven}

\* The price frames the provider can return: no bar, 3 bars, 11 bars.
FetchFrames == {[k \in 1..n |-> Bar(3, k - 1)] : n \in {0, 3, 11}}

\* provider.GetPrices(ticker, fetchStart, time.Time{}, freq): an error, or
\* a price frame in ascending date order with no bar before fetchStart.
GetPrices(ticker, fetchStart, freq) ==
    {[err |-> TRUE, pf |-> <<>>]} \cup
    {[err |-> FALSE, pf |-> f] :
        f \in {g \in FetchFrames : \A k \in 1..Len(g) : g[k].Date >= fetchStart}}

InitHandler ==
    /\ call = [fn |-> "handleFearGreed"]
    /\ pf = None
    /\ cfg = None
    /\ lang = None
    /\ InitLocals
    /\ InitGlobals
    /\ InitServer
    /\ history = <<>>

\* What every branch of the handler does: the request is served.
Serve(q, got, resp) ==
    /\ request' = q
    /\ fetched' = got
    /\ response' = resp
    /\ served' = served + 1
    /\ UNCHANGED <<pf, cfg, lang, pc, normWindow, raw, sub, results, call, ret,
                   globals, history>>

\* ticker == "": 400
HandleBadRequest ==
    /\ served < MaxRequests
    /\ \E q \in Queries :
        /\ q.ticker = ""
        /\ Serve(q, None, [status |-> 400, xcache |-> "",
                           body |-> [detail |-> "Ticker required"]])
        /\ UNCHANGED <<memCache, storedBy>>

\* memCache.Get(cacheKey) finds an entry: it is written as the response
HandleCacheHit ==
    /\ served < MaxRequests
    /\ \E q \in Queries :
        /\ q.ticker # ""
        /\ CacheKey(Params(q)) \in DOMAIN memCache
        /\ Serve(q, None, [status |-> 200, xcache |-> "HIT",
                           body |-> memCache[CacheKey(Params(q))]])
        /\ UNCHANGED <<memCache, storedBy>>

\* no entry, and the provider fails: 404, nothing is stored
HandleFetchError ==
    /\ served < MaxRequests
    /\ \E q \in Queries :
        /\ q.ticker # ""
        /\ CacheKey(Params(q)) \notin DOMAIN memCache
        /\ \E got \in GetPrices(q.ticker,
                                FetchStart(ParseDate(q.start), Params(q).freq),
                                Params(q).freq) :
              /\ got.err
              /\ Serve(q, got, [status |-> 404, xcache |-> "",
                                body |-> [detail |-> q.ticker]])
        /\ UNCHANGED <<memCache, storedBy>>

\* no entry, and the provider returns a frame: compute, store, respond
\* (status 0: the handler panicked and wrote no response)
HandleCacheMiss ==
    /\ served < MaxRequests
    /\ \E q \in Queries :
        LET p == Params(q)
        IN  /\ q.ticker # ""
            /\ CacheKey(p) \notin DOMAIN memCache
            /\ \E got \in GetPrices(q.ticker, FetchStart(ParseDate(q.start), p.freq),
                                    p.freq) :
                  /\ ~got.err
                  /\ \E out \in {Compute(got.pf,
                                          [defaultConfig EXCEPT !.NormWindow = p.window],
                                          p.lang)} :
                      IF out.panic
                      THEN /\ Serve(q, got, [status |-> 0, xcache |-> "",
                                             body |-> Null])
                           /\ UNCHANGED <<memCache, storedBy>>
                      ELSE \E resp \in {Resp(p, out.results)} :
                              /\ Serve(q, got, [status |-> 200, xcache |-> "MISS",
                                                body |-> resp])
                              /\ memCache' = (CacheKey(p) :> resp) @@ memCache
                              /\ storedBy' = (CacheKey(p) :> p) @@ storedBy

\* an entry is older than the default expiration (5 minutes): it is gone
Expire ==
    \E k \in DOMAIN memCache :
        /\ memCache' = [j \in DOMAIN memCache \ {k} |-> memCache[j]]
        /\ storedBy' = [j \in DOMAIN storedBy \ {k} |-> storedBy[j]]
        /\ UNCHANGED <<pf, cfg, lang, pc, normWindow, raw, sub, results, call, ret,
                       globals, history, request, fetched, response, served>>

NextHandler ==
    \/ HandleBadRequest \/ HandleCacheHit \/ HandleFetchError \/ HandleCacheMiss
    \/ Expire

SpecHandler == InitHandler /\ [][NextHandler]_vars

--------------------------------------------------------------------------
(* Properties of the handler *)

Responded(status) == response # None /\ response.status = status

\* No score, latest score or latest sub-score of the response map is NaN.
NoNaNInBody(body) ==
    /\ \A k \in 1..Len(body.series) :
          body.series[k].score = Null \/ ~IsNaN(body.series[k].score)
    /\ body.latest = Null \/ ~IsNaN(body.latest.score)
    /\ body.latest_subscores = Null
          \/ \A key \in DOMAIN body.latest_subscores :
                ~IsNaN(body.latest_subscores[key])

\* C13: in every response handleFearGreed builds, no numeric field handed
\* to the JSON encoder is NaN: every undefined aggregate and every
\* undefined sub-score of the latest bar is absent or null.
C13_NoNaNInResponse == Responded(200) => NoNaNInBody(response.body)

\* C17: when the request carries a valid start date, every element of the
\* series the handler computes and returns has a date not before it.
C17_SeriesNotBeforeStart ==
    (Responded(200) /\ response.xcache = "MISS"
        /\ ParseDate(request.start) # ZeroTime) =>
        \A k \in 1..Len(response.body.series) :
            ParseDate(response.body.series[k].date) >= ParseDate(request.start)

\* C18: a response served from the cache was stored by an earlier MISS for
\* the same ticker, freq, start, lang, window and tail; every entry lies
\* under the key of the request that stored it; a 404 stores no entry.
C18_HitServesSameParameters ==
    /\ (Responded(200) /\ response.xcache = "HIT") =>
          /\ response.body.ticker = Params(request).ticker
          /\ response.body.frequency = Params(request).freq
          /\ CacheKey(Params(request)) \in DOMAIN storedBy =>
                storedBy[CacheKey(Params(request))] = Params(request)
    /\ \A k \in DOMAIN memCache :
          k \in DOMAIN storedBy /\ CacheKey(storedBy[k]) = k
    /\ Responded(404) => CacheKey(Params(request)) \notin DOMAIN memCache

==========================================================================
